---- MODULE Spec2Model ----
(***************************************************************************)
(* Prague / L4S congestion controller of quic-go                           *)
(* (internal/congestion/prague_sender.go) as a state machine.              *)
(*                                                                         *)
(* The sender object is the record p, with the field names of the Go       *)
(* struct pragueSender.  Every exported method is a pure operator on that  *)
(* record (same name as the method) and an action Call<Method> that        *)
(* applies it with inputs drawn from small sets.                           *)
(*                                                                         *)
(* float64 fields (alpha, alphaGain, cwndCarry) and float64 temporaries    *)
(* are exact rationals [n, d] in lowest terms.  All the quantities that    *)
(* the model reaches have small numerators and denominators, far inside    *)
(* the 53-bit mantissa, so the only difference to IEEE arithmetic is the   *)
(* final rounding of non-dyadic quotients.                                 *)
(*                                                                         *)
(* The pacer, the clock and rttStats are not part of the window state      *)
(* machine: no method below reads them to decide a window update.          *)
(***************************************************************************)
EXTENDS Integers, Sequences, FiniteSets, TLC

VARIABLES p, prev, lastOp, calls, conn, h, connOp, senders, prevSenders, twoOp

vars == <<p, prev, lastOp, calls, conn, h, connOp, senders, prevSenders, twoOp>>

(***************************************************************************)
(* Bounds of the model.                                                    *)
(***************************************************************************)
\* number of calls made on one sender
MaxCalls == 5
\* packet numbers handed to the sender are 0..MaxPacketNumber
MaxPacketNumber == 2
\* OnPacketAcked in slow start is not taken beyond this window
MaxCongestionWindow == 160
\* cap of the per-sample accumulators totalAckedBytes / ecnMarkedBytes
MaxSampleBytes == 16
\* cap of the denominators of alpha and cwndCarry
MaxDenominator == 256

PacketNumbers == 0..MaxPacketNumber
\* max datagram size given to the constructor
InitialDatagramSizes == {4}
\* arguments of SetMaxDatagramSize
DatagramSizeChoices == {3, 4, 6}
\* ackedBytes arguments of OnPacketAcked
AckedByteChoices == {4, 8}
\* ecnMarkedBytes arguments of OnECNFeedback
MarkedByteChoices == {0, 4, 8}
\* largest cumulative CE counter of an ACK frame
MaxCE == 3
\* number of ACK frames one sent packet handler receives
MaxAcks == 3
\* CE counter at the creation of the sent packet handler
InitialCEChoices == {0, 1}
\* number of calls made on the two senders together
MaxTwoCalls == 3
\* number of calls made on each sender of a pair driven in lockstep
MaxPairCalls == 4
\* number of calls in a run with large acknowledgements
MaxLongCalls == 7
\* largest denominator of alpha and cwndCarry in such a run
MaxLongDenominator == 512
\* ackedBytes of an acknowledgement covering eight or sixteen datagrams
LongAckedByteChoices == {32, 64}
\* ecnMarkedBytes arguments in a run with large acknowledgements
LongMarkedByteChoices == {0, 8}
\* values of rttStats.SmoothedRTT() in milliseconds; 0 is "no sample yet"
SmoothedRTTChoices == {0, 10, 24, 25, 26, 50}

(***************************************************************************)
(* Constants of the program.                                               *)
(***************************************************************************)
pragueMinCwnd == 2
pragueInitialCwnd == 32
\* pragueVirtualRTTMin = 25 * time.Millisecond; durations are in milliseconds
pragueVirtualRTTMin == 25
\* protocol.InvalidPacketNumber
InvalidPacketNumber == -1
\* protocol.MaxByteCount (2^62 - 1 in the program): the "infinite" initial
\* slow start threshold, here a value above every window the model reaches
MaxByteCount == 1073741823
\* protocol.DefaultInitialMaxStreamData (512 KiB in the program), the cap of
\* additive increase; scaled with the datagram sizes of the model
DefaultInitialMaxStreamData == 144

(***************************************************************************)
(* Exact rational arithmetic standing for float64.                         *)
(***************************************************************************)
RECURSIVE GCD(_, _)
GCD(a, b) == IF b = 0 THEN a ELSE GCD(b, a % b)

Abs(x) == IF x < 0 THEN -x ELSE x

Rat(n, d) ==
    LET g == GCD(Abs(n), d)
    IN  IF n = 0 THEN [n |-> 0, d |-> 1] ELSE [n |-> n \div g, d |-> d \div g]

\* float64(x) of an integer byte count
Float(x) == [n |-> x, d |-> 1]

RatAdd(a, b) == Rat(a.n * b.d + b.n * a.d, a.d * b.d)
RatSub(a, b) == Rat(a.n * b.d - b.n * a.d, a.d * b.d)
RatMul(a, b) == Rat(a.n * b.n, a.d * b.d)
\* a / b for b > 0
RatDiv(a, b) == Rat(a.n * b.d, a.d * b.n)
RatLT(a, b) == a.n * b.d < b.n * a.d
RatLE(a, b) == a.n * b.d <= b.n * a.d
\* math.Max
RatMax(a, b) == IF RatLT(a, b) THEN b ELSE a

\* protocol.ByteCount(f): Go's float to integer conversion truncates toward 0
ByteCount(f) == IF f.n >= 0 THEN f.n \div f.d ELSE -((-f.n) \div f.d)

Zero == Float(0)
One == Float(1)
pragueAlphaGain == Rat(1, 16)
pragueBeta == Rat(1, 2)

(***************************************************************************)
(* The sender: construction and helpers.                                   *)
(***************************************************************************)
\* newPragueSender starting from the window of 10 datagrams of RFC 9002
newPragueSender_TenDatagrams(initialMaxDatagramSize, l4sEnabled) ==
    [ alpha                      |-> Zero,
      alphaGain                  |-> pragueAlphaGain,
      congestionWindow           |-> 10 * initialMaxDatagramSize,
      slowStartThreshold         |-> MaxByteCount,
      cwndCarry                  |-> Zero,
      virtualRTTMin              |-> pragueVirtualRTTMin,
      largestSentPacketNumber    |-> 0,
      largestAckedPacketNumber   |-> 0,
      largestSentAtLastCutback   |-> 0,
      ecnMarkedBytes             |-> 0,
      totalAckedBytes            |-> 0,
      l4sEnabled                 |-> l4sEnabled,
      inSlowStart                |-> TRUE,
      inRecovery                 |-> FALSE,
      lastCutbackExitedSlowstart |-> FALSE,
      maxDatagramSize            |-> initialMaxDatagramSize,
      initialCongestionWindow    |-> 10 * initialMaxDatagramSize,
      initialMaxCongestionWindow |-> DefaultInitialMaxStreamData ]

\* newPragueSender; the packet number fields are not set by the constructor
\* and keep Go's zero value
newPragueSender(initialMaxDatagramSize, l4sEnabled) ==
    [ alpha                      |-> Zero,
      alphaGain                  |-> pragueAlphaGain,
      congestionWindow           |-> pragueInitialCwnd * initialMaxDatagramSize,
      slowStartThreshold         |-> MaxByteCount,
      cwndCarry                  |-> Zero,
      virtualRTTMin              |-> pragueVirtualRTTMin,
      largestSentPacketNumber    |-> 0,
      largestAckedPacketNumber   |-> 0,
      largestSentAtLastCutback   |-> 0,
      ecnMarkedBytes             |-> 0,
      totalAckedBytes            |-> 0,
      l4sEnabled                 |-> l4sEnabled,
      inSlowStart                |-> TRUE,
      inRecovery                 |-> FALSE,
      lastCutbackExitedSlowstart |-> FALSE,
      maxDatagramSize            |-> initialMaxDatagramSize,
      initialCongestionWindow    |-> pragueInitialCwnd * initialMaxDatagramSize,
      initialMaxCongestionWindow |-> DefaultInitialMaxStreamData ]

minCongestionWindow(s) == pragueMinCwnd * s.maxDatagramSize

InSlowStart(s) == s.inSlowStart
InRecovery(s) == s.inRecovery
GetCongestionWindow(s) == s.congestionWindow
\* CanSend with the comparison written as "<="
CanSend_Inclusive(s, bytesInFlight) == bytesInFlight <= s.congestionWindow

CanSend(s, bytesInFlight) == bytesInFlight < s.congestionWindow

\* getVirtualRTT without the floor; srtt is rttStats.SmoothedRTT()
getVirtualRTT_NoFloor(s, srtt) == srtt

\* getVirtualRTT; srtt is rttStats.SmoothedRTT(), which the sender only reads
getVirtualRTT(s, srtt) == IF srtt < s.virtualRTTMin THEN s.virtualRTTMin ELSE srtt

\* BandwidthFromDelta(bytes, delta): bytes per unit of time, as a rational
BandwidthFromDelta(bytes, delta) == Rat(bytes, delta)

BandwidthEstimate(s, smoothedRTT) ==
    LET srtt == getVirtualRTT(s, smoothedRTT)
    IN  IF srtt = 0 THEN Zero ELSE BandwidthFromDelta(s.congestionWindow, srtt)

(***************************************************************************)
(* SendAlgorithm methods.                                                  *)
(***************************************************************************)
\* OnPacketSent without the test of isRetransmittable
OnPacketSent_CountsAll(s, packetNumber, isRetransmittable) ==
    IF packetNumber > s.largestSentPacketNumber
    THEN [s EXCEPT !.largestSentPacketNumber = packetNumber]
    ELSE s

OnPacketSent(s, packetNumber, isRetransmittable) ==
    IF ~isRetransmittable THEN s
    ELSE IF packetNumber > s.largestSentPacketNumber
         THEN [s EXCEPT !.largestSentPacketNumber = packetNumber]
         ELSE s

MaybeExitSlowStart(s) ==
    IF s.inSlowStart /\ (RatLT(Zero, s.alpha) \/ s.congestionWindow >= s.slowStartThreshold)
    THEN [s EXCEPT !.inSlowStart = FALSE]
    ELSE s

\* pragueAdditiveIncrease that counts every acked byte, whatever alpha is
pragueAdditiveIncrease_IgnoresAlpha(s, ackedBytes) ==
    IF s.congestionWindow >= s.initialMaxCongestionWindow THEN s
    ELSE LET increase == RatDiv(RatMul(Float(s.maxDatagramSize), Float(ackedBytes)),
                                Float(s.congestionWindow))
         IN  [s EXCEPT !.congestionWindow = @ + ByteCount(increase)]

\* pragueAdditiveIncrease without the test against initialMaxCongestionWindow
pragueAdditiveIncrease_NoCap(s, ackedBytes) ==
    LET unmarkedBytes ==
            IF s.l4sEnabled /\ RatLT(Zero, s.alpha)
            THEN ByteCount(RatMul(Float(ackedBytes), RatSub(One, s.alpha)))
            ELSE ackedBytes
        increase == RatDiv(RatMul(Float(s.maxDatagramSize), Float(unmarkedBytes)),
                           Float(s.congestionWindow))
    IN  [s EXCEPT !.congestionWindow = @ + ByteCount(increase)]

\* pragueAdditiveIncrease that counts half of the acked bytes of an L4S sender
pragueAdditiveIncrease_L4SHalves(s, ackedBytes) ==
    IF s.congestionWindow >= s.initialMaxCongestionWindow THEN s
    ELSE LET unmarkedBytes ==
                 IF s.l4sEnabled
                 THEN ByteCount(RatMul(Float(ackedBytes),
                                       RatSub(One, RatMax(s.alpha, RatDiv(One, Float(2))))))
                 ELSE ackedBytes
             increase == RatDiv(RatMul(Float(s.maxDatagramSize), Float(unmarkedBytes)),
                                Float(s.congestionWindow))
         IN  [s EXCEPT !.congestionWindow = @ + ByteCount(increase)]

pragueAdditiveIncrease(s, ackedBytes) ==
    IF s.congestionWindow >= s.initialMaxCongestionWindow THEN s
    ELSE LET unmarkedBytes ==
                 IF s.l4sEnabled /\ RatLT(Zero, s.alpha)
                 THEN ByteCount(RatMul(Float(ackedBytes), RatSub(One, s.alpha)))
                 ELSE ackedBytes
             increase == RatDiv(RatMul(Float(s.maxDatagramSize), Float(unmarkedBytes)),
                                Float(s.congestionWindow))
         IN  [s EXCEPT !.congestionWindow = @ + ByteCount(increase)]

\* OnPacketAcked that grows by one datagram per ACK in slow start
OnPacketAcked_DatagramPerAck(s, number, ackedBytes) ==
    LET s1 == IF number > s.largestAckedPacketNumber
              THEN [s EXCEPT !.largestAckedPacketNumber = number]
              ELSE s
        s2 == [s1 EXCEPT !.totalAckedBytes = @ + ackedBytes]
    IN  IF s2.inRecovery /\ number <= s2.largestSentAtLastCutback THEN s2
        ELSE IF s2.inSlowStart
             THEN MaybeExitSlowStart([s2 EXCEPT !.congestionWindow = @ + s.maxDatagramSize])
             ELSE pragueAdditiveIncrease(s2, ackedBytes)

\* OnPacketAcked without the test for packets sent before the cutback
OnPacketAcked_NoRecoveryCheck(s, number, ackedBytes) ==
    LET s1 == IF number > s.largestAckedPacketNumber
              THEN [s EXCEPT !.largestAckedPacketNumber = number]
              ELSE s
        s2 == [s1 EXCEPT !.totalAckedBytes = @ + ackedBytes]
    IN  IF s2.inSlowStart
        THEN MaybeExitSlowStart([s2 EXCEPT !.congestionWindow = @ + ackedBytes])
        ELSE pragueAdditiveIncrease(s2, ackedBytes)

\* OnPacketAcked that decides slow start by comparing the window with the threshold
OnPacketAcked_RenoSlowStart(s, number, ackedBytes) ==
    LET s1 == IF number > s.largestAckedPacketNumber
              THEN [s EXCEPT !.largestAckedPacketNumber = number]
              ELSE s
        s2 == [s1 EXCEPT !.totalAckedBytes = @ + ackedBytes]
    IN  IF s2.inRecovery /\ number <= s2.largestSentAtLastCutback THEN s2
        ELSE IF s2.congestionWindow < s2.slowStartThreshold
             THEN MaybeExitSlowStart([s2 EXCEPT !.congestionWindow = @ + ackedBytes,
                                                !.inSlowStart = TRUE])
             ELSE pragueAdditiveIncrease([s2 EXCEPT !.inSlowStart = FALSE], ackedBytes)

OnPacketAcked(s, number, ackedBytes) ==
    LET s1 == IF number > s.largestAckedPacketNumber
              THEN [s EXCEPT !.largestAckedPacketNumber = number]
              ELSE s
        s2 == [s1 EXCEPT !.totalAckedBytes = @ + ackedBytes]
    IN  IF s2.inRecovery /\ number <= s2.largestSentAtLastCutback THEN s2
        ELSE IF s2.inSlowStart
             THEN MaybeExitSlowStart([s2 EXCEPT !.congestionWindow = @ + ackedBytes])
             ELSE pragueAdditiveIncrease(s2, ackedBytes)

\* OnCongestionEvent with the duplicate test written as "<"
OnCongestionEvent_StrictDedup(s, number) ==
    IF number < s.largestSentAtLastCutback THEN s
    ELSE LET ssthresh == ByteCount(RatMul(Float(s.congestionWindow), pragueBeta))
         IN  [s EXCEPT !.lastCutbackExitedSlowstart = s.inSlowStart,
                       !.inSlowStart = FALSE,
                       !.inRecovery = TRUE,
                       !.largestSentAtLastCutback = s.largestSentPacketNumber,
                       !.slowStartThreshold = ssthresh,
                       !.congestionWindow =
                           ByteCount(RatMax(Float(pragueMinCwnd * s.maxDatagramSize),
                                            Float(ssthresh)))]

\* OnCongestionEvent that leaves the window to the ECN response when L4S is on
OnCongestionEvent_L4SKeepsWindow(s, number) ==
    IF number <= s.largestSentAtLastCutback THEN s
    ELSE LET ssthresh == ByteCount(RatMul(Float(s.congestionWindow), pragueBeta))
         IN  IF s.l4sEnabled
             THEN [s EXCEPT !.lastCutbackExitedSlowstart = s.inSlowStart,
                            !.inSlowStart = FALSE,
                            !.inRecovery = TRUE,
                            !.largestSentAtLastCutback = s.largestSentPacketNumber]
             ELSE [s EXCEPT !.lastCutbackExitedSlowstart = s.inSlowStart,
                            !.inSlowStart = FALSE,
                            !.inRecovery = TRUE,
                            !.largestSentAtLastCutback = s.largestSentPacketNumber,
                            !.slowStartThreshold = ssthresh,
                            !.congestionWindow =
                                ByteCount(RatMax(Float(pragueMinCwnd * s.maxDatagramSize),
                                                 Float(ssthresh)))]

\* OnCongestionEvent that raises the threshold to the minimum window as well
OnCongestionEvent_ClampedThreshold(s, number) ==
    IF number <= s.largestSentAtLastCutback THEN s
    ELSE LET ssthresh == ByteCount(RatMax(Float(pragueMinCwnd * s.maxDatagramSize),
                                          RatMul(Float(s.congestionWindow), pragueBeta)))
         IN  [s EXCEPT !.lastCutbackExitedSlowstart = s.inSlowStart,
                       !.inSlowStart = FALSE,
                       !.inRecovery = TRUE,
                       !.largestSentAtLastCutback = s.largestSentPacketNumber,
                       !.slowStartThreshold = ssthresh,
                       !.congestionWindow = ssthresh]

OnCongestionEvent(s, number) ==
    IF number <= s.largestSentAtLastCutback THEN s
    ELSE LET ssthresh == ByteCount(RatMul(Float(s.congestionWindow), pragueBeta))
         IN  [s EXCEPT !.lastCutbackExitedSlowstart = s.inSlowStart,
                       !.inSlowStart = FALSE,
                       !.inRecovery = TRUE,
                       !.largestSentAtLastCutback = s.largestSentPacketNumber,
                       !.slowStartThreshold = ssthresh,
                       !.congestionWindow =
                           ByteCount(RatMax(Float(minCongestionWindow(s)), Float(ssthresh)))]

\* OnRetransmissionTimeout that forgets to invalidate the last cutback
OnRetransmissionTimeout_KeepCutback(s) ==
    [s EXCEPT !.inSlowStart = FALSE,
              !.slowStartThreshold = s.congestionWindow \div 2,
              !.congestionWindow = pragueMinCwnd * s.maxDatagramSize]

\* OnRetransmissionTimeout that restarts slow start
OnRetransmissionTimeout_SlowStart(s) ==
    [s EXCEPT !.largestSentAtLastCutback = InvalidPacketNumber,
              !.inSlowStart = TRUE,
              !.slowStartThreshold = s.congestionWindow \div 2,
              !.congestionWindow = pragueMinCwnd * s.maxDatagramSize]

OnRetransmissionTimeout(s) ==
    [s EXCEPT !.largestSentAtLastCutback = InvalidPacketNumber,
              !.inSlowStart = FALSE,
              !.slowStartThreshold = s.congestionWindow \div 2,
              !.congestionWindow = minCongestionWindow(s)]

\* SetMaxDatagramSize without the check for a decrease
SetMaxDatagramSizePanics_Never(s, maxDatagramSize) == FALSE

\* the panic of SetMaxDatagramSize
SetMaxDatagramSizePanics(s, maxDatagramSize) == maxDatagramSize < s.maxDatagramSize

\* SetMaxDatagramSize that tests "cwnd is the minimum" after the assignment
SetMaxDatagramSize_LateTest(s, maxDatagramSize) ==
    IF maxDatagramSize < s.maxDatagramSize THEN s
    ELSE LET s1 == [s EXCEPT !.maxDatagramSize = maxDatagramSize]
             cwndIsMinCwnd == s1.congestionWindow = pragueMinCwnd * s1.maxDatagramSize
         IN  IF cwndIsMinCwnd
             THEN [s1 EXCEPT !.congestionWindow = pragueMinCwnd * s1.maxDatagramSize]
             ELSE s1

\* a panicking call returns before any assignment
SetMaxDatagramSize(s, maxDatagramSize) ==
    IF SetMaxDatagramSizePanics(s, maxDatagramSize) THEN s
    ELSE LET cwndIsMinCwnd == s.congestionWindow = minCongestionWindow(s)
             s1 == [s EXCEPT !.maxDatagramSize = maxDatagramSize]
         IN  IF cwndIsMinCwnd
             THEN [s1 EXCEPT !.congestionWindow = minCongestionWindow(s1)]
             ELSE s1

(***************************************************************************)
(* Prague-specific methods.                                                *)
(***************************************************************************)
\* updateAlpha without the clamp to [0,1]
updateAlpha_NoClamp(s) ==
    IF s.totalAckedBytes = 0 THEN s
    ELSE LET markingFraction == RatDiv(Float(s.ecnMarkedBytes), Float(s.totalAckedBytes))
         IN  [s EXCEPT !.alpha =
                  IF s.alpha = Zero /\ RatLT(Zero, markingFraction)
                  THEN One
                  ELSE RatAdd(RatMul(RatSub(One, s.alphaGain), s.alpha),
                              RatMul(s.alphaGain, markingFraction))]

\* updateAlpha that starts the average from 0 like every other update
updateAlpha_NoBootstrap(s) ==
    IF s.totalAckedBytes = 0 THEN s
    ELSE LET markingFraction == RatDiv(Float(s.ecnMarkedBytes), Float(s.totalAckedBytes))
             a1 == RatAdd(RatMul(RatSub(One, s.alphaGain), s.alpha),
                          RatMul(s.alphaGain, markingFraction))
             a2 == IF RatLT(a1, Zero) THEN Zero ELSE a1
             a3 == IF RatLT(One, a2) THEN One ELSE a2
         IN  [s EXCEPT !.alpha = a3]

\* updateAlpha that forgets alpha when a sample holds no marks
updateAlpha_ResetOnCleanSample(s) ==
    IF s.totalAckedBytes = 0 THEN s
    ELSE LET markingFraction == RatDiv(Float(s.ecnMarkedBytes), Float(s.totalAckedBytes))
             a1 == IF s.alpha = Zero /\ RatLT(Zero, markingFraction)
                   THEN One
                   ELSE IF markingFraction = Zero
                        THEN Zero
                        ELSE RatAdd(RatMul(RatSub(One, s.alphaGain), s.alpha),
                                    RatMul(s.alphaGain, markingFraction))
             a2 == IF RatLT(a1, Zero) THEN Zero ELSE a1
             a3 == IF RatLT(One, a2) THEN One ELSE a2
         IN  [s EXCEPT !.alpha = a3]

updateAlpha(s) ==
    IF s.totalAckedBytes = 0 THEN s
    ELSE LET markingFraction == RatDiv(Float(s.ecnMarkedBytes), Float(s.totalAckedBytes))
             a1 == IF s.alpha = Zero /\ RatLT(Zero, markingFraction)
                   THEN One
                   ELSE RatAdd(RatMul(RatSub(One, s.alphaGain), s.alpha),
                               RatMul(s.alphaGain, markingFraction))
             a2 == IF RatLT(a1, Zero) THEN Zero ELSE a1
             a3 == IF RatLT(One, a2) THEN One ELSE a2
         IN  [s EXCEPT !.alpha = a3]

\* applyECNCongestionResponse that leaves the end of slow start to the next ACK
applyECNCongestionResponse_KeepsSlowStart(s) ==
    IF RatLE(s.alpha, Zero) THEN s
    ELSE LET reductionFactor == RatSub(One, RatDiv(s.alpha, Float(2)))
             newCwnd == RatMul(Float(s.congestionWindow), reductionFactor)
             carry1 == RatAdd(s.cwndCarry, RatSub(Float(s.congestionWindow), newCwnd))
             cwndReduction == ByteCount(carry1)
             newCwnd2 == IF RatLE(One, carry1)
                         THEN RatSub(newCwnd, Float(cwndReduction))
                         ELSE newCwnd
             carry2 == IF RatLE(One, carry1)
                       THEN RatSub(carry1, Float(cwndReduction))
                       ELSE carry1
         IN  [s EXCEPT !.cwndCarry = carry2,
                       !.congestionWindow =
                           ByteCount(RatMax(newCwnd2, Float(pragueMinCwnd * s.maxDatagramSize)))]

\* applyECNCongestionResponse without the clamp at the minimum window
applyECNCongestionResponse_NoFloor(s) ==
    IF RatLE(s.alpha, Zero) THEN s
    ELSE LET reductionFactor == RatSub(One, RatDiv(s.alpha, Float(2)))
             newCwnd == RatMul(Float(s.congestionWindow), reductionFactor)
             carry1 == RatAdd(s.cwndCarry, RatSub(Float(s.congestionWindow), newCwnd))
             cwndReduction == ByteCount(carry1)
             newCwnd2 == IF RatLE(One, carry1)
                         THEN RatSub(newCwnd, Float(cwndReduction))
                         ELSE newCwnd
             carry2 == IF RatLE(One, carry1)
                       THEN RatSub(carry1, Float(cwndReduction))
                       ELSE carry1
         IN  [s EXCEPT !.cwndCarry = carry2,
                       !.congestionWindow =
                           ByteCount(RatMax(newCwnd2, Zero)),
                       !.inSlowStart = FALSE]

\* applyECNCongestionResponse that also lowers the slow start threshold
applyECNCongestionResponse_SetsThreshold(s) ==
    IF RatLE(s.alpha, Zero) THEN s
    ELSE LET reductionFactor == RatSub(One, RatDiv(s.alpha, Float(2)))
             newCwnd == RatMul(Float(s.congestionWindow), reductionFactor)
             carry1 == RatAdd(s.cwndCarry, RatSub(Float(s.congestionWindow), newCwnd))
             cwndReduction == ByteCount(carry1)
             newCwnd2 == IF RatLE(One, carry1)
                         THEN RatSub(newCwnd, Float(cwndReduction))
                         ELSE newCwnd
             carry2 == IF RatLE(One, carry1)
                       THEN RatSub(carry1, Float(cwndReduction))
                       ELSE carry1
         IN  [s EXCEPT !.cwndCarry = carry2,
                       !.congestionWindow =
                           ByteCount(RatMax(newCwnd2, Float(minCongestionWindow(s)))),
                       !.slowStartThreshold =
                           ByteCount(RatMax(newCwnd2, Float(minCongestionWindow(s)))),
                       !.inSlowStart = FALSE]

\* applyECNCongestionResponse that takes one byte out of the carry at a time
applyECNCongestionResponse_SubtractsOne(s) ==
    IF RatLE(s.alpha, Zero) THEN s
    ELSE LET reductionFactor == RatSub(One, RatDiv(s.alpha, Float(2)))
             newCwnd == RatMul(Float(s.congestionWindow), reductionFactor)
             carry1 == RatAdd(s.cwndCarry, RatSub(Float(s.congestionWindow), newCwnd))
             cwndReduction == 1
             newCwnd2 == IF RatLE(One, carry1)
                         THEN RatSub(newCwnd, Float(cwndReduction))
                         ELSE newCwnd
             carry2 == IF RatLE(One, carry1)
                       THEN RatSub(carry1, Float(cwndReduction))
                       ELSE carry1
         IN  [s EXCEPT !.cwndCarry = carry2,
                       !.congestionWindow =
                           ByteCount(RatMax(newCwnd2, Float(minCongestionWindow(s)))),
                       !.inSlowStart = FALSE]

applyECNCongestionResponse(s) ==
    IF RatLE(s.alpha, Zero) THEN s
    ELSE LET reductionFactor == RatSub(One, RatDiv(s.alpha, Float(2)))
             newCwnd == RatMul(Float(s.congestionWindow), reductionFactor)
             carry1 == RatAdd(s.cwndCarry, RatSub(Float(s.congestionWindow), newCwnd))
             cwndReduction == ByteCount(carry1)
             newCwnd2 == IF RatLE(One, carry1)
                         THEN RatSub(newCwnd, Float(cwndReduction))
                         ELSE newCwnd
             carry2 == IF RatLE(One, carry1)
                       THEN RatSub(carry1, Float(cwndReduction))
                       ELSE carry1
         IN  [s EXCEPT !.cwndCarry = carry2,
                       !.congestionWindow =
                           ByteCount(RatMax(newCwnd2, Float(minCongestionWindow(s)))),
                       !.inSlowStart = FALSE]

\* OnECNFeedback without the test of l4sEnabled
OnECNFeedback_NoL4SCheck(s, ecnMarkedBytes) ==
    LET s1 == [s EXCEPT !.ecnMarkedBytes = @ + ecnMarkedBytes]
    IN  IF s1.totalAckedBytes > 0
        THEN [applyECNCongestionResponse(updateAlpha(s1))
                  EXCEPT !.ecnMarkedBytes = 0, !.totalAckedBytes = 0]
        ELSE s1

\* OnECNFeedback that flushes the sample whether or not bytes were acked
OnECNFeedback_FlushWithoutAcks(s, ecnMarkedBytes) ==
    IF ~s.l4sEnabled THEN s
    ELSE LET s1 == [s EXCEPT !.ecnMarkedBytes = @ + ecnMarkedBytes]
         IN  [applyECNCongestionResponse(updateAlpha(s1))
                  EXCEPT !.ecnMarkedBytes = 0, !.totalAckedBytes = 0]

\* OnECNFeedback that responds only to a sample that holds marks
OnECNFeedback_ResponseOnlyOnMarks(s, ecnMarkedBytes) ==
    IF ~s.l4sEnabled THEN s
    ELSE LET s1 == [s EXCEPT !.ecnMarkedBytes = @ + ecnMarkedBytes]
             s2 == updateAlpha(s1)
         IN  IF s1.totalAckedBytes > 0
             THEN [(IF s1.ecnMarkedBytes > 0 THEN applyECNCongestionResponse(s2) ELSE s2)
                       EXCEPT !.ecnMarkedBytes = 0, !.totalAckedBytes = 0]
             ELSE s1

OnECNFeedback(s, ecnMarkedBytes) ==
    IF ~s.l4sEnabled THEN s
    ELSE LET s1 == [s EXCEPT !.ecnMarkedBytes = @ + ecnMarkedBytes]
         IN  IF s1.totalAckedBytes > 0
             THEN [applyECNCongestionResponse(updateAlpha(s1))
                       EXCEPT !.ecnMarkedBytes = 0, !.totalAckedBytes = 0]
             ELSE s1

(***************************************************************************)
(* Configuration of a listener or dialer.  A *quic.Config is a record; the *)
(* nil pointer is the record with nil = TRUE.  The zero value of the field *)
(* CongestionControlAlgorithm is "Unset".                                  *)
(***************************************************************************)
Algorithms == {"Unset", "RFC9002", "Prague"}

NilConfig == [nil |-> TRUE, EnableL4S |-> FALSE, CongestionControlAlgorithm |-> "Unset"]

Config(enableL4S, algorithm) ==
    [nil |-> FALSE, EnableL4S |-> enableL4S, CongestionControlAlgorithm |-> algorithm]

Configs == {NilConfig} \cup {Config(l4s, alg) : l4s \in BOOLEAN, alg \in Algorithms}

\* the nil error
NoError == ""

L4SRequiresPrague == "L4S can only be enabled when using Prague congestion control algorithm"

\* a validator that accepts L4S when the algorithm is left unset
validateConfigExample_UnsetAccepted(config) ==
    IF config.nil THEN NoError
    ELSE IF config.EnableL4S /\ config.CongestionControlAlgorithm = "RFC9002"
         THEN L4SRequiresPrague
         ELSE NoError

validateConfigExample(config) ==
    IF config.nil THEN NoError
    ELSE IF config.EnableL4S /\ config.CongestionControlAlgorithm # "Prague"
         THEN L4SRequiresPrague
         ELSE NoError

\* a populateConfig that keeps the algorithm field as given
populateConfigExample_KeepsField(config) ==
    IF config.nil THEN Config(FALSE, "Unset") ELSE config

\* a populateConfig that lets an explicit RFC9002 win over EnableL4S
populateConfigExample_RespectsExplicit(config) ==
    LET c == IF config.nil THEN Config(FALSE, "Unset") ELSE config
        algorithm == IF c.CongestionControlAlgorithm = "Unset"
                     THEN IF c.EnableL4S THEN "Prague" ELSE "RFC9002"
                     ELSE c.CongestionControlAlgorithm
    IN  Config(c.EnableL4S, algorithm)

\* the timeouts that populateConfigExample also fills in are left out
populateConfigExample(config) ==
    LET c == IF config.nil THEN Config(FALSE, "Unset") ELSE config
        algorithm == IF c.EnableL4S THEN "Prague"
                     ELSE IF c.CongestionControlAlgorithm = "Prague"
                          THEN c.CongestionControlAlgorithm
                          ELSE "RFC9002"
    IN  Config(c.EnableL4S, algorithm)

\* quic.Listen / quic.Dial: the error of the validation is returned to the
\* caller, and only a valid config is populated and used
Listen(config) ==
    LET err == validateConfigExample(config)
    IN  IF err # NoError
        THEN [created |-> FALSE, err |-> err, config |-> NilConfig]
        ELSE [created |-> TRUE, err |-> NoError, config |-> populateConfigExample(config)]

\* no listener or dialer has been created yet
NoConn == [created |-> FALSE, err |-> NoError, config |-> NilConfig]

(***************************************************************************)
(* The sent packet handler: ECN mode of outgoing packets, and the cursor   *)
(* over the cumulative CE counter of incoming ACK frames.                  *)
(***************************************************************************)
ECNValues == {"ECNUnsupported", "ECNNon", "ECT0", "ECT1"}

newSentPacketHandler(initialMaxDatagramSize, enableECN, algorithm, enableL4S, ce) ==
    [ maxDatagramSize            |-> initialMaxDatagramSize,
      enableECN                  |-> enableECN,
      congestionControlAlgorithm |-> algorithm,
      enableL4S                  |-> enableL4S,
      ecnValidationFailed        |-> FALSE,
      initialCE                  |-> ce,
      prevCE                     |-> ce,
      lastCE                     |-> ce,
      sumDeltaCE                 |-> 0,
      lastDeltaCE                |-> 0,
      ecnFeedback                |-> 0,
      ecnFeedbackCalls           |-> 0,
      acks                       |-> 0,
      monotone                   |-> TRUE ]

\* a selector that asks for ECT(1) whenever L4S is enabled
ECNMode_IgnoresState(hdl, isShortHeaderPacket) ==
    IF hdl.enableL4S /\ hdl.congestionControlAlgorithm = "Prague" THEN "ECT1" ELSE "ECT0"

\* a selector that asks for ECT(1) whenever the algorithm is Prague
ECNMode_PragueOnly(hdl, isShortHeaderPacket) ==
    IF ~hdl.enableECN THEN "ECNUnsupported"
    ELSE IF ~isShortHeaderPacket THEN "ECNNon"
    ELSE IF hdl.ecnValidationFailed THEN "ECNNon"
    ELSE IF hdl.congestionControlAlgorithm = "Prague" THEN "ECT1"
    ELSE "ECT0"

ECNMode(hdl, isShortHeaderPacket) ==
    IF ~hdl.enableECN THEN "ECNUnsupported"
    ELSE IF ~isShortHeaderPacket THEN "ECNNon"
    ELSE IF hdl.ecnValidationFailed THEN "ECNNon"
    ELSE IF hdl.enableL4S /\ hdl.congestionControlAlgorithm = "Prague" THEN "ECT1"
    ELSE "ECT0"

\* the two ECN bits of the IP header of a packet sent with the mode ecn:
\* without ECN support no codepoint is requested and the bits stay 00
HeaderBits(ecn) ==
    CASE ecn = "ECNUnsupported" -> "00"
      [] ecn = "ECNNon"         -> "00"
      [] ecn = "ECT1"           -> "01"
      [] ecn = "ECT0"           -> "10"

NotECT == "00"

\* the CE delta of an ACK frame against the cursor; an ACK that does not
\* advance the counter contributes nothing
DeltaCE(hdl, ce) == IF ce > hdl.prevCE THEN ce - hdl.prevCE ELSE 0

\* a bridge that forwards CE bytes whether or not L4S is enabled
ECNFeedbackBytes_WithoutL4S(hdl, ce) == DeltaCE(hdl, ce) * hdl.maxDatagramSize

\* the argument of the OnECNFeedback call that an ACK frame causes, 0 when
\* the sender is not called: ce_bytes = delta ce * max_datagram_size, passed
\* on only with L4S enabled and only when positive
ECNFeedbackBytes(hdl, ce) ==
    LET ceBytes == DeltaCE(hdl, ce) * hdl.maxDatagramSize
    IN  IF hdl.enableL4S /\ ceBytes > 0 THEN ceBytes ELSE 0

\* an ACK bridge that never moves its cursor
ReceivedAck_StaleCursor(hdl, ce) ==
    [hdl EXCEPT !.lastCE           = ce,
                !.sumDeltaCE       = @ + DeltaCE(hdl, ce),
                !.lastDeltaCE      = DeltaCE(hdl, ce),
                !.ecnFeedback      = ECNFeedbackBytes(hdl, ce),
                !.ecnFeedbackCalls = @ + (IF ECNFeedbackBytes(hdl, ce) > 0 THEN 1 ELSE 0),
                !.acks             = @ + 1,
                !.monotone         = @ /\ ce >= hdl.lastCE]

\* an ACK frame with the cumulative CE counter ce
ReceivedAck(hdl, ce) ==
    [hdl EXCEPT !.prevCE           = IF ce > @ THEN ce ELSE @,
                !.lastCE           = ce,
                !.sumDeltaCE       = @ + DeltaCE(hdl, ce),
                !.lastDeltaCE      = DeltaCE(hdl, ce),
                !.ecnFeedback      = ECNFeedbackBytes(hdl, ce),
                !.ecnFeedbackCalls = @ + (IF ECNFeedbackBytes(hdl, ce) > 0 THEN 1 ELSE 0),
                !.acks             = @ + 1,
                !.monotone         = @ /\ ce >= hdl.lastCE]

(***************************************************************************)
(* The calls the connection makes on the sender.  lastOp records the call  *)
(* that produced the current state and prev the sender before that call.   *)
(***************************************************************************)
\* the sender objects of two connections
Instances == {1, 2}

InstanceDatagramSize == <<4, 6>>

TwoOp(name, target) == [op |-> name, target |-> target]

\* one sender object that all connections would share
Store_Shared(i, s) == [j \in Instances |-> s]

\* a method with receiver senders[i] writes the fields of that object only:
\* every call of newPragueSender allocates an object of its own
Store(i, s) == [senders EXCEPT ![i] = s]

ConnOp(name, config, short, ecn, ce) ==
    [op |-> name, config |-> config, short |-> short, ecn |-> ecn, ce |-> ce]

Op(name, number, bytes, flag, outcome) ==
    [op |-> name, number |-> number, bytes |-> bytes, flag |-> flag, outcome |-> outcome]

Init ==
    /\ \E size \in InitialDatagramSizes, l4s \in BOOLEAN :
           p = newPragueSender(size, l4s)
    /\ prev = p
    /\ lastOp = Op("newPragueSender", InvalidPacketNumber, 0, FALSE, "ok")
    /\ calls = 0
    /\ conn = NoConn
    /\ h = newSentPacketHandler(4, FALSE, "RFC9002", FALSE, 0)
    /\ connOp = ConnOp("none", NilConfig, FALSE, "ECNNon", 0)
    /\ senders = [i \in Instances |-> newPragueSender(InstanceDatagramSize[i], FALSE)]
    /\ prevSenders = senders
    /\ twoOp = TwoOp("newPragueSender", 1)

\* one more call on the sender
Called ==
    /\ calls < MaxCalls
    /\ calls' = calls + 1
    /\ UNCHANGED <<conn, h, connOp>>
    /\ UNCHANGED <<senders, prevSenders, twoOp>>

CallOnPacketSent ==
    \E pn \in PacketNumbers, isRetransmittable \in BOOLEAN :
        /\ p' = OnPacketSent(p, pn, isRetransmittable)
        /\ prev' = p
        /\ Called
        /\ lastOp' = Op("OnPacketSent", pn, 0, isRetransmittable, "ok")

CallOnPacketAcked ==
    \E pn \in PacketNumbers, ackedBytes \in AckedByteChoices :
        /\ p.totalAckedBytes + ackedBytes <= MaxSampleBytes
        /\ p.congestionWindow + ackedBytes <= MaxCongestionWindow
        /\ p' = OnPacketAcked(p, pn, ackedBytes)
        /\ prev' = p
        /\ Called
        /\ lastOp' = Op("OnPacketAcked", pn, ackedBytes, FALSE, "ok")

CallOnCongestionEvent ==
    \E pn \in PacketNumbers :
        /\ p' = OnCongestionEvent(p, pn)
        /\ prev' = p
        /\ Called
        /\ lastOp' = Op("OnCongestionEvent", pn, 0, FALSE, "ok")

CallOnRetransmissionTimeout ==
    \E packetsRetransmitted \in {TRUE} :
        /\ p' = OnRetransmissionTimeout(p)
        /\ prev' = p
        /\ Called
        /\ lastOp' = Op("OnRetransmissionTimeout", InvalidPacketNumber, 0,
                        packetsRetransmitted, "ok")

CallSetMaxDatagramSize ==
    \E size \in DatagramSizeChoices :
        /\ p' = SetMaxDatagramSize(p, size)
        /\ prev' = p
        /\ Called
        /\ lastOp' = Op("SetMaxDatagramSize", InvalidPacketNumber, size, FALSE,
                        IF SetMaxDatagramSizePanics(p, size) THEN "panic" ELSE "ok")

CallOnECNFeedback ==
    \E ecnMarkedBytes \in MarkedByteChoices :
        LET s == OnECNFeedback(p, ecnMarkedBytes)
        IN  /\ p.ecnMarkedBytes + ecnMarkedBytes <= MaxSampleBytes
            /\ s.alpha.d <= MaxDenominator
            /\ s.cwndCarry.d <= MaxDenominator
            /\ p' = s
            /\ prev' = p
            /\ Called
            /\ lastOp' = Op("OnECNFeedback", InvalidPacketNumber, ecnMarkedBytes, FALSE, "ok")

Next ==
    \/ CallOnPacketSent
    \/ CallOnPacketAcked
    \/ CallOnCongestionEvent
    \/ CallOnRetransmissionTimeout
    \/ CallSetMaxDatagramSize
    \/ CallOnECNFeedback

Spec == Init /\ [][Next]_vars

(***************************************************************************)
(* Creation of listeners and of sent packet handlers, the ECN mode of the  *)
(* packets sent and the ACK frames received.  connOp records the last of   *)
(* these calls.  The sender p is not touched.                              *)
(***************************************************************************)
SenderIdle == UNCHANGED <<p, prev, lastOp, calls, senders, prevSenders, twoOp>>

CallListen ==
    \E config \in Configs :
        /\ conn' = Listen(config)
        /\ connOp' = ConnOp("Listen", config, FALSE, "ECNNon", 0)
        /\ UNCHANGED h
        /\ SenderIdle

CallNewSentPacketHandler ==
    \E size \in InitialDatagramSizes, enableECN \in BOOLEAN,
       algorithm \in {"RFC9002", "Prague"},
       enableL4S \in BOOLEAN, ce \in InitialCEChoices :
        /\ h' = newSentPacketHandler(size, enableECN, algorithm, enableL4S, ce)
        /\ connOp' = ConnOp("newSentPacketHandler", NilConfig, FALSE, "ECNNon", ce)
        /\ UNCHANGED conn
        /\ SenderIdle

\* ECN validation finds the path not ECN capable
ECNValidationFails ==
    /\ h.enableECN
    /\ ~h.ecnValidationFailed
    /\ h' = [h EXCEPT !.ecnValidationFailed = TRUE]
    /\ connOp' = ConnOp("ECNValidationFails", NilConfig, FALSE, "ECNNon", 0)
    /\ UNCHANGED conn
    /\ SenderIdle

CallECNMode ==
    \E isShortHeaderPacket \in BOOLEAN :
        /\ connOp' = ConnOp("ECNMode", NilConfig, isShortHeaderPacket,
                            ECNMode(h, isShortHeaderPacket), 0)
        /\ UNCHANGED <<conn, h>>
        /\ SenderIdle

\* ECN counters are only carried and read while ECN is in use
CallReceivedAck ==
    \E ce \in 0..MaxCE :
        /\ h.enableECN
        /\ ~h.ecnValidationFailed
        /\ h.acks < MaxAcks
        /\ h' = ReceivedAck(h, ce)
        /\ connOp' = ConnOp("ReceivedAck", NilConfig, FALSE, "ECNNon", ce)
        /\ UNCHANGED conn
        /\ SenderIdle

NextConn ==
    \/ CallListen
    \/ CallNewSentPacketHandler
    \/ ECNValidationFails
    \/ CallECNMode
    \/ CallReceivedAck

SpecConn == Init /\ [][NextConn]_vars

(***************************************************************************)
(* Two connections, each with a sender of its own, calling in any order.   *)
(* twoOp records the last call and the instance it was made on,            *)
(* prevSenders both senders before that call.  p, conn and h are not used. *)
(***************************************************************************)
TwoCalled(name, i) ==
    /\ calls < MaxTwoCalls
    /\ calls' = calls + 1
    /\ prevSenders' = senders
    /\ twoOp' = TwoOp(name, i)
    /\ UNCHANGED <<p, prev, lastOp, conn, h, connOp>>

InitTwo ==
    /\ p = newPragueSender(4, FALSE)
    /\ prev = p
    /\ lastOp = Op("newPragueSender", InvalidPacketNumber, 0, FALSE, "ok")
    /\ calls = 0
    /\ conn = NoConn
    /\ h = newSentPacketHandler(4, FALSE, "RFC9002", FALSE, 0)
    /\ connOp = ConnOp("none", NilConfig, FALSE, "ECNNon", 0)
    /\ \E l4s \in [Instances -> BOOLEAN] :
           senders = [i \in Instances |-> newPragueSender(InstanceDatagramSize[i], l4s[i])]
    /\ prevSenders = senders
    /\ twoOp = TwoOp("newPragueSender", 1)

TwoOnPacketSent ==
    \E i \in Instances, pn \in PacketNumbers, isRetransmittable \in BOOLEAN :
        /\ senders' = Store(i, OnPacketSent(senders[i], pn, isRetransmittable))
        /\ TwoCalled("OnPacketSent", i)

TwoOnPacketAcked ==
    \E i \in Instances, pn \in PacketNumbers, ackedBytes \in AckedByteChoices :
        /\ senders[i].totalAckedBytes + ackedBytes <= MaxSampleBytes
        /\ senders' = Store(i, OnPacketAcked(senders[i], pn, ackedBytes))
        /\ TwoCalled("OnPacketAcked", i)

TwoOnCongestionEvent ==
    \E i \in Instances, pn \in PacketNumbers :
        /\ senders' = Store(i, OnCongestionEvent(senders[i], pn))
        /\ TwoCalled("OnCongestionEvent", i)

TwoOnRetransmissionTimeout ==
    \E i \in Instances :
        /\ senders' = Store(i, OnRetransmissionTimeout(senders[i]))
        /\ TwoCalled("OnRetransmissionTimeout", i)

TwoSetMaxDatagramSize ==
    \E i \in Instances, size \in DatagramSizeChoices :
        /\ ~SetMaxDatagramSizePanics(senders[i], size)
        /\ senders' = Store(i, SetMaxDatagramSize(senders[i], size))
        /\ TwoCalled("SetMaxDatagramSize", i)

TwoOnECNFeedback ==
    \E i \in Instances, ecnMarkedBytes \in MarkedByteChoices :
        /\ senders[i].ecnMarkedBytes + ecnMarkedBytes <= MaxSampleBytes
        /\ senders' = Store(i, OnECNFeedback(senders[i], ecnMarkedBytes))
        /\ TwoCalled("OnECNFeedback", i)

NextTwo ==
    \/ TwoOnPacketSent
    \/ TwoOnPacketAcked
    \/ TwoOnCongestionEvent
    \/ TwoOnRetransmissionTimeout
    \/ TwoSetMaxDatagramSize
    \/ TwoOnECNFeedback

SpecTwo == InitTwo /\ [][NextTwo]_vars

(***************************************************************************)
(* Two senders built with the same datagram size, the first with L4S and   *)
(* the second without, that receive the same calls with the same           *)
(* arguments, one call on both per step.  OnECNFeedback is never called.   *)
(* twoOp records the call, with target 0 for "both".                       *)
(***************************************************************************)
PairCalled(name) ==
    /\ calls < MaxPairCalls
    /\ calls' = calls + 1
    /\ prevSenders' = senders
    /\ twoOp' = TwoOp(name, 0)
    /\ UNCHANGED <<p, prev, lastOp, conn, h, connOp>>

InitPair ==
    /\ p = newPragueSender(4, FALSE)
    /\ prev = p
    /\ lastOp = Op("newPragueSender", InvalidPacketNumber, 0, FALSE, "ok")
    /\ calls = 0
    /\ conn = NoConn
    /\ h = newSentPacketHandler(4, FALSE, "RFC9002", FALSE, 0)
    /\ connOp = ConnOp("none", NilConfig, FALSE, "ECNNon", 0)
    /\ \E size \in InitialDatagramSizes :
           senders = [i \in Instances |-> newPragueSender(size, i = 1)]
    /\ prevSenders = senders
    /\ twoOp = TwoOp("newPragueSender", 0)

PairOnPacketSent ==
    \E pn \in PacketNumbers, isRetransmittable \in BOOLEAN :
        /\ senders' = [i \in Instances |-> OnPacketSent(senders[i], pn, isRetransmittable)]
        /\ PairCalled("OnPacketSent")

PairOnPacketAcked ==
    \E pn \in PacketNumbers, ackedBytes \in AckedByteChoices :
        /\ senders' = [i \in Instances |-> OnPacketAcked(senders[i], pn, ackedBytes)]
        /\ PairCalled("OnPacketAcked")

PairOnCongestionEvent ==
    \E pn \in PacketNumbers :
        /\ senders' = [i \in Instances |-> OnCongestionEvent(senders[i], pn)]
        /\ PairCalled("OnCongestionEvent")

PairOnRetransmissionTimeout ==
    /\ senders' = [i \in Instances |-> OnRetransmissionTimeout(senders[i])]
    /\ PairCalled("OnRetransmissionTimeout")

PairSetMaxDatagramSize ==
    \E size \in DatagramSizeChoices :
        /\ \A i \in Instances : ~SetMaxDatagramSizePanics(senders[i], size)
        /\ senders' = [i \in Instances |-> SetMaxDatagramSize(senders[i], size)]
        /\ PairCalled("SetMaxDatagramSize")

NextPair ==
    \/ PairOnPacketSent
    \/ PairOnPacketAcked
    \/ PairOnCongestionEvent
    \/ PairOnRetransmissionTimeout
    \/ PairSetMaxDatagramSize

SpecPair == InitPair /\ [][NextPair]_vars

(***************************************************************************)
(* One sender with acknowledgements of eight datagrams at a time, so that  *)
(* the window grows well beyond the minimum and beyond                     *)
(* initialMaxCongestionWindow, and that additive increase with a large     *)
(* alpha still adds whole bytes.  Same variables as Spec.                  *)
(***************************************************************************)
LongCalled ==
    /\ calls < MaxLongCalls
    /\ calls' = calls + 1
    /\ UNCHANGED <<conn, h, connOp>>
    /\ UNCHANGED <<senders, prevSenders, twoOp>>

LongOnPacketAcked ==
    \E ackedBytes \in LongAckedByteChoices :
        /\ p' = OnPacketAcked(p, 1, ackedBytes)
        /\ prev' = p
        /\ LongCalled
        /\ lastOp' = Op("OnPacketAcked", 1, ackedBytes, FALSE, "ok")

LongOnCongestionEvent ==
    /\ p' = OnCongestionEvent(p, 1)
    /\ prev' = p
    /\ LongCalled
    /\ lastOp' = Op("OnCongestionEvent", 1, 0, FALSE, "ok")

LongOnECNFeedback ==
    \E ecnMarkedBytes \in LongMarkedByteChoices :
        /\ OnECNFeedback(p, ecnMarkedBytes).alpha.d <= MaxLongDenominator
        /\ OnECNFeedback(p, ecnMarkedBytes).cwndCarry.d <= MaxLongDenominator
        /\ p' = OnECNFeedback(p, ecnMarkedBytes)
        /\ prev' = p
        /\ LongCalled
        /\ lastOp' = Op("OnECNFeedback", InvalidPacketNumber, ecnMarkedBytes, FALSE, "ok")

NextLong ==
    \/ LongOnPacketAcked
    \/ LongOnCongestionEvent
    \/ LongOnECNFeedback

SpecLong == Init /\ [][NextLong]_vars

(***************************************************************************)
(* Properties.  In a state, lastOp is the call that produced it, prev the  *)
(* sender before the call and p the sender after it.                       *)
(***************************************************************************)
\* the call that led here flushed an ECN sample
Flushed == /\ lastOp.op = "OnECNFeedback"
           /\ prev.l4sEnabled
           /\ prev.totalAckedBytes > 0

\* C1: in every reachable state the congestion window is at least twice the
\* current max datagram size.
C1_CwndFloor == p.congestionWindow >= 2 * p.maxDatagramSize

\* C2: an OnPacketAcked, while in recovery, for a packet number above
\* largestSentAtLastCutback clears inRecovery, and InRecovery() then stays
\* false until the next OnCongestionEvent.
C2_RecoveryExit ==
    /\ (/\ lastOp.op = "OnPacketAcked"
        /\ InRecovery(prev)
        /\ lastOp.number > prev.largestSentAtLastCutback) => ~InRecovery(p)
    /\ (~InRecovery(prev) /\ lastOp.op # "OnCongestionEvent") => ~InRecovery(p)

\* C3: an OnECNFeedback that flushes a sample with resulting alpha > 0 sets
\* cwnd to max(minCwnd, floor(cwnd * (1 - alpha/2))) up to one byte of carry,
\* so one call removes at most half of the window.
C3_Expected ==
    LET f == RatMul(Float(prev.congestionWindow),
                    RatSub(One, RatDiv(p.alpha, Float(2))))
    IN  ByteCount(RatMax(Float(minCongestionWindow(prev)), f))

C3_ECNDecrease ==
    (Flushed /\ RatLT(Zero, p.alpha)) =>
        /\ p.congestionWindow <= C3_Expected
        /\ p.congestionWindow >= C3_Expected - 1
        /\ 2 * (prev.congestionWindow - p.congestionWindow) <= prev.congestionWindow + 2

\* C4: alpha is in [0,1] after every OnECNFeedback, also for samples with more
\* CE-marked bytes than acked bytes.
C4_AlphaRange == RatLE(Zero, p.alpha) /\ RatLE(p.alpha, One)

\* an EWMA update (alpha already positive) of a sample whose marked bytes
\* exceed its acked bytes
C4_Witness ==
    /\ Flushed
    /\ RatLT(Zero, prev.alpha)
    /\ prev.ecnMarkedBytes + lastOp.bytes > prev.totalAckedBytes
    /\ p.alpha = One

C6_IdempotentLoss ==
    /\ (lastOp.op = "OnCongestionEvent" /\ lastOp.number > prev.largestSentAtLastCutback)
           => p.largestSentAtLastCutback = prev.largestSentPacketNumber
    /\ (lastOp.op = "OnCongestionEvent" /\ lastOp.number <= prev.largestSentAtLastCutback)
           => p = prev

\* a loss at the packet number of an earlier cutback, during its recovery
C6_Witness ==
    /\ lastOp.op = "OnCongestionEvent"
    /\ InRecovery(prev)
    /\ prev.largestSentAtLastCutback > 0
    /\ lastOp.number = prev.largestSentAtLastCutback
    /\ p = prev

\* C7: OnRetransmissionTimeout sets cwnd to 2 * maxDatagramSize, ssthresh to
\* half the previous cwnd, inSlowStart to false and largestSentAtLastCutback to
\* InvalidPacketNumber, so that an OnCongestionEvent for any packet number
\* reacts.
C7_RTOCollapse ==
    lastOp.op = "OnRetransmissionTimeout" =>
        /\ p.congestionWindow = 2 * p.maxDatagramSize
        /\ p.slowStartThreshold = prev.congestionWindow \div 2
        /\ p.inSlowStart = FALSE
        /\ p.largestSentAtLastCutback = InvalidPacketNumber
        /\ \A pn \in PacketNumbers :
               /\ pn > p.largestSentAtLastCutback
               /\ InRecovery(OnCongestionEvent(p, pn))
               /\ OnCongestionEvent(p, pn).largestSentAtLastCutback = p.largestSentPacketNumber

\* a timeout during the recovery of a cutback, with an odd window above the minimum
C7_Witness ==
    /\ lastOp.op = "OnRetransmissionTimeout"
    /\ prev.largestSentAtLastCutback > 0
    /\ prev.congestionWindow > 2 * prev.maxDatagramSize
    /\ prev.congestionWindow % 2 = 1

\* C8 as stated: after OnRetransmissionTimeout the sender is in slow start.
C8_RTOToSlowStart == lastOp.op = "OnRetransmissionTimeout" => InSlowStart(p)

\* C8 amended: after OnRetransmissionTimeout the sender is not in slow start,
\* and InRecovery() is what it was before the call.
C8_RTOLeavesSlowStart ==
    lastOp.op = "OnRetransmissionTimeout" =>
        ~InSlowStart(p) /\ InRecovery(p) = InRecovery(prev)

\* a timeout of a sender that was in slow start
C8_Witness ==
    /\ lastOp.op = "OnRetransmissionTimeout"
    /\ InSlowStart(prev)
    /\ ~InSlowStart(p)

\* C9: SetMaxDatagramSize with a smaller size panics and changes no field of
\* the sender; maxDatagramSize never decreases.
C9_DecreaseRejected ==
    /\ (lastOp.op = "SetMaxDatagramSize" /\ lastOp.bytes < prev.maxDatagramSize)
           => (lastOp.outcome = "panic" /\ p = prev)
    /\ p.maxDatagramSize >= prev.maxDatagramSize

\* a decrease is asked for after the size was raised
C9_Witness ==
    /\ lastOp.op = "SetMaxDatagramSize"
    /\ lastOp.bytes < prev.maxDatagramSize
    /\ lastOp.outcome = "panic"
    /\ \E size \in InitialDatagramSizes : size < prev.maxDatagramSize

\* C10: SetMaxDatagramSize(n) with n >= the current size sets maxDatagramSize
\* to n; cwnd becomes 2 * n if it was exactly 2 * the old size and is
\* unchanged otherwise.
C10_SizeIncrease ==
    (lastOp.op = "SetMaxDatagramSize" /\ lastOp.bytes >= prev.maxDatagramSize) =>
        /\ lastOp.outcome = "ok"
        /\ p.maxDatagramSize = lastOp.bytes
        /\ p.congestionWindow =
               IF prev.congestionWindow = 2 * prev.maxDatagramSize
               THEN 2 * lastOp.bytes
               ELSE prev.congestionWindow

\* the size is raised while cwnd is the minimum window
C10_Witness ==
    /\ lastOp.op = "SetMaxDatagramSize"
    /\ lastOp.bytes > prev.maxDatagramSize
    /\ prev.congestionWindow = 2 * prev.maxDatagramSize
    /\ p.congestionWindow = 2 * lastOp.bytes

\* the size is raised while cwnd is above the minimum window
C10_WitnessAbove ==
    /\ lastOp.op = "SetMaxDatagramSize"
    /\ lastOp.bytes > prev.maxDatagramSize
    /\ prev.congestionWindow > 2 * prev.maxDatagramSize
    /\ p.congestionWindow = prev.congestionWindow

Max(a, b) == IF a < b THEN b ELSE a

\* C15: CanSend(b) is true exactly when b < cwnd, and CanSend(0) is true in
\* every reachable state.
C15_CanSend ==
    /\ CanSend(p, 0)
    /\ \A b \in {0, p.congestionWindow - 1, p.congestionWindow, p.congestionWindow + 1} :
           CanSend(p, b) <=> (b < p.congestionWindow)

\* the window has collapsed to the minimum after a timeout during a recovery
C15_Witness ==
    /\ lastOp.op = "OnRetransmissionTimeout"
    /\ InRecovery(prev)
    /\ p.congestionWindow = minCongestionWindow(p)
    /\ CanSend(p, 0)
    /\ ~CanSend(p, p.congestionWindow)

C17_InitialState ==
    lastOp.op = "newPragueSender" =>
        /\ p.congestionWindow = 32 * p.maxDatagramSize
        /\ p.slowStartThreshold = MaxByteCount
        /\ p.slowStartThreshold > MaxCongestionWindow
        /\ p.alpha = Zero
        /\ p.cwndCarry = Zero
        /\ InSlowStart(p)
        /\ ~InRecovery(p)

\* a sender just constructed with L4S enabled
C17_Witness ==
    /\ lastOp.op = "newPragueSender"
    /\ calls = 0
    /\ p.l4sEnabled
    /\ p.maxDatagramSize \in InitialDatagramSizes

\* C18: OnPacketSent of a retransmittable packet makes largestSent the maximum
\* of its old value and the packet number, a packet that is not
\* retransmittable changes nothing, no call decreases largestSent (only
\* OnPacketSent changes it), and OnPacketSent changes no other field.
C18_LargestSent ==
    /\ p.largestSentPacketNumber >= prev.largestSentPacketNumber
    /\ lastOp.op # "OnPacketSent" =>
           p.largestSentPacketNumber = prev.largestSentPacketNumber
    /\ lastOp.op = "OnPacketSent" =>
           /\ p = [prev EXCEPT !.largestSentPacketNumber =
                       IF lastOp.flag THEN Max(@, lastOp.number) ELSE @]
           /\ p.congestionWindow = prev.congestionWindow
           /\ p.slowStartThreshold = prev.slowStartThreshold
           /\ p.alpha = prev.alpha
           /\ p.inSlowStart = prev.inSlowStart
           /\ p.inRecovery = prev.inRecovery

\* a packet that is not retransmittable and has a number above largestSent
C18_Witness ==
    /\ lastOp.op = "OnPacketSent"
    /\ ~lastOp.flag
    /\ prev.largestSentPacketNumber > 0
    /\ lastOp.number > prev.largestSentPacketNumber
    /\ p.largestSentPacketNumber = prev.largestSentPacketNumber

\* C11: creating a listener or dialer fails, with the error "L4S can only be
\* enabled when using Prague congestion control algorithm", exactly when
\* EnableL4S is true and the algorithm is not Prague (the unset algorithm
\* included); nil and empty configs and the other combinations are accepted.
C11_ValidationError ==
    connOp.op = "Listen" =>
        LET c == connOp.config
            invalid == ~c.nil /\ c.EnableL4S /\ c.CongestionControlAlgorithm # "Prague"
        IN  /\ conn.err = validateConfigExample(c)
            /\ (conn.err = L4SRequiresPrague) <=> invalid
            /\ (conn.err = NoError) <=> ~invalid
            /\ conn.created <=> ~invalid

\* a config with EnableL4S and no algorithm is rejected
C11_Witness ==
    /\ connOp.op = "Listen"
    /\ connOp.config = Config(TRUE, "Unset")
    /\ conn.err = L4SRequiresPrague
    /\ ~conn.created

LossProcessed ==
    /\ lastOp.op = "OnCongestionEvent"
    /\ lastOp.number > prev.largestSentAtLastCutback

MarkingFraction == Rat(prev.ecnMarkedBytes + lastOp.bytes, prev.totalAckedBytes)

Clamp01(x) == IF RatLT(x, Zero) THEN Zero ELSE IF RatLT(One, x) THEN One ELSE x

\* C24: on a flushed sample with marking fraction f, alpha becomes 1 if alpha
\* was 0 and f > 0, and otherwise (1 - 1/16) * alpha + (1/16) * f clamped to
\* [0,1]; with alpha = 0 and f = 0 alpha stays 0.
C24_AlphaUpdate ==
    Flushed =>
        LET f == MarkingFraction
        IN  /\ (prev.alpha = Zero /\ RatLT(Zero, f)) => p.alpha = One
            /\ ~(prev.alpha = Zero /\ RatLT(Zero, f)) =>
                   p.alpha = Clamp01(RatAdd(RatMul(Rat(15, 16), prev.alpha),
                                            RatMul(Rat(1, 16), f)))
            /\ (prev.alpha = Zero /\ f = Zero) => p.alpha = Zero

\* a flush that moves a positive alpha towards a positive marking fraction
C24_Witness ==
    /\ Flushed
    /\ RatLT(Zero, prev.alpha)
    /\ RatLT(Zero, MarkingFraction)
    /\ RatLT(MarkingFraction, One)
    /\ RatLT(p.alpha, prev.alpha)
    /\ RatLT(MarkingFraction, p.alpha)

\* the last call was an OnPacketAcked that the recovery test let through
AckCounted ==
    /\ lastOp.op = "OnPacketAcked"
    /\ ~(prev.inRecovery /\ lastOp.number <= prev.largestSentAtLastCutback)

\* C25: in slow start, an OnPacketAcked that recovery does not suppress
\* increases cwnd by exactly ackedBytes.
C25_SlowStartGrowth ==
    (AckCounted /\ prev.inSlowStart) =>
        p.congestionWindow = prev.congestionWindow + lastOp.bytes

\* the second ACK of two datagrams in slow start
C25_Witness ==
    /\ AckCounted
    /\ prev.inSlowStart
    /\ p.inSlowStart
    /\ lastOp.bytes = 2 * prev.maxDatagramSize
    /\ prev.congestionWindow > pragueInitialCwnd * prev.maxDatagramSize
    /\ p.congestionWindow = prev.congestionWindow + 2 * prev.maxDatagramSize

\* C26: between calls, inSlowStart implies alpha = 0, cwnd < ssthresh and that
\* no loss and no timeout has been processed; a loss, a timeout and an ECN
\* feedback that makes alpha positive each leave inSlowStart false.
C26_SlowStartExit ==
    /\ p.inSlowStart =>
           /\ p.alpha = Zero
           /\ p.congestionWindow < p.slowStartThreshold
           /\ ~p.inRecovery
           /\ p.largestSentAtLastCutback # InvalidPacketNumber
           /\ p.slowStartThreshold = MaxByteCount
    /\ (LossProcessed \/ lastOp.op = "OnRetransmissionTimeout") => ~p.inSlowStart
    /\ RatLT(Zero, p.alpha) => ~p.inSlowStart
    /\ ~prev.inSlowStart => ~p.inSlowStart

\* the ECN feedback that ends slow start
C26_Witness ==
    /\ Flushed
    /\ prev.inSlowStart
    /\ prev.alpha = Zero
    /\ RatLT(Zero, p.alpha)
    /\ ~p.inSlowStart
    /\ ~p.inRecovery

\* C27: with L4S enabled, OnECNFeedback(ce) adds ce to ecnMarkedBytes; it
\* flushes the sample (alpha update and ECN response) if and only if
\* totalAckedBytes > 0, and both accumulators are 0 after a flush; with
\* totalAckedBytes = 0 it changes nothing but ecnMarkedBytes, which carries
\* over to the next sample.
C27_SampleFlush ==
    (lastOp.op = "OnECNFeedback" /\ prev.l4sEnabled) =>
        LET s1 == [prev EXCEPT !.ecnMarkedBytes = @ + lastOp.bytes]
        IN  /\ prev.totalAckedBytes > 0 =>
                   /\ p.ecnMarkedBytes = 0
                   /\ p.totalAckedBytes = 0
                   /\ p.alpha = updateAlpha(s1).alpha
                   /\ p.congestionWindow =
                          applyECNCongestionResponse(updateAlpha(s1)).congestionWindow
            /\ prev.totalAckedBytes = 0 =>
                   /\ p = s1
                   /\ p.ecnMarkedBytes = prev.ecnMarkedBytes + lastOp.bytes
                   /\ p.alpha = prev.alpha
                   /\ p.congestionWindow = prev.congestionWindow
                   /\ p.inSlowStart = prev.inSlowStart

\* marked bytes reported twice before any byte is acked, then flushed with
\* the first acked bytes: the carried bytes are in the marking fraction
C27_Witness ==
    /\ Flushed
    /\ prev.ecnMarkedBytes > 0
    /\ lastOp.bytes = 0
    /\ prev.alpha = Zero
    /\ p.alpha = One
    /\ p.ecnMarkedBytes = 0
    /\ p.totalAckedBytes = 0

\* floor(ackedBytes * (1 - alpha)) for a rational alpha
EffectiveAcked(l4sEnabled, alpha, ackedBytes) ==
    IF l4sEnabled /\ RatLT(Zero, alpha)
    THEN (ackedBytes * (alpha.d - alpha.n)) \div alpha.d
    ELSE ackedBytes

\* C28: outside slow start and below the window cap, an OnPacketAcked that
\* recovery does not suppress increases cwnd by
\* floor(maxDatagramSize * effectiveAcked / cwnd), effectiveAcked being
\* floor(ackedBytes * (1 - alpha)) with L4S and alpha > 0 and ackedBytes
\* otherwise; with alpha = 1 the window does not grow.  The same holds for
\* the increase computed from the current state with other values of alpha.
C28_AdditiveIncrease ==
    /\ (AckCounted /\ ~prev.inSlowStart
           /\ prev.congestionWindow < prev.initialMaxCongestionWindow) =>
           /\ p.congestionWindow = prev.congestionWindow +
                  (prev.maxDatagramSize *
                       EffectiveAcked(prev.l4sEnabled, prev.alpha, lastOp.bytes))
                  \div prev.congestionWindow
           /\ prev.alpha = One => p.congestionWindow = prev.congestionWindow
    /\ p.congestionWindow < p.initialMaxCongestionWindow =>
           \A a \in {Rat(1, 4), Rat(1, 2), One}, ackedBytes \in AckedByteChoices :
               pragueAdditiveIncrease([p EXCEPT !.alpha = a, !.l4sEnabled = TRUE],
                                      ackedBytes).congestionWindow
                   = p.congestionWindow +
                         (p.maxDatagramSize * EffectiveAcked(TRUE, a, ackedBytes))
                         \div p.congestionWindow

\* an ACK in congestion avoidance with alpha = 1: no growth, where the same
\* ACK with alpha = 0 would have added bytes
C28_Witness ==
    /\ AckCounted
    /\ ~prev.inSlowStart
    /\ prev.l4sEnabled
    /\ prev.alpha = One
    /\ prev.congestionWindow < prev.initialMaxCongestionWindow
    /\ (prev.maxDatagramSize * lastOp.bytes) \div prev.congestionWindow > 0
    /\ p.congestionWindow = prev.congestionWindow

\* C29: in recovery, an OnPacketAcked for a packet number at or below
\* largestSentAtLastCutback leaves cwnd, ssthresh and inSlowStart unchanged,
\* and still advances largestAcked and adds ackedBytes to totalAckedBytes.
C29_RecoveryAck ==
    (/\ lastOp.op = "OnPacketAcked"
     /\ prev.inRecovery
     /\ lastOp.number <= prev.largestSentAtLastCutback) =>
        /\ p.congestionWindow = prev.congestionWindow
        /\ p.slowStartThreshold = prev.slowStartThreshold
        /\ p.inSlowStart = prev.inSlowStart
        /\ p.largestAckedPacketNumber = Max(prev.largestAckedPacketNumber, lastOp.number)
        /\ p.totalAckedBytes = prev.totalAckedBytes + lastOp.bytes

\* an ACK for a packet sent before the cutback that advances largestAcked
C29_Witness ==
    /\ lastOp.op = "OnPacketAcked"
    /\ prev.inRecovery
    /\ lastOp.number <= prev.largestSentAtLastCutback
    /\ lastOp.number > prev.largestAckedPacketNumber
    /\ p.largestAckedPacketNumber = lastOp.number
    /\ p.totalAckedBytes > prev.totalAckedBytes
    /\ p.congestionWindow = prev.congestionWindow

\* C30: cwndCarry is 0 after an OnCongestionEvent that is not a duplicate and
\* after OnRetransmissionTimeout, and no other call resets it.
C30_CarryReset ==
    /\ (LossProcessed \/ lastOp.op = "OnRetransmissionTimeout") => p.cwndCarry = Zero
    /\ (/\ ~LossProcessed
        /\ lastOp.op \notin {"OnRetransmissionTimeout", "OnECNFeedback"}) =>
           p.cwndCarry = prev.cwndCarry

C31_WindowAtLeastMinimum ==
    p.initialCongestionWindow = pragueInitialCwnd * p.maxDatagramSize =>
        p.congestionWindow >= pragueMinCwnd * p.maxDatagramSize

\* an ECN response whose reduction is stopped at the minimum window
C31_Witness ==
    /\ Flushed
    /\ p.initialCongestionWindow = pragueInitialCwnd * p.maxDatagramSize
    /\ prev.congestionWindow > pragueMinCwnd * p.maxDatagramSize
    /\ RatLT(Zero, p.alpha)
    /\ p.congestionWindow = pragueMinCwnd * p.maxDatagramSize

\* C32: inSlowStart is monotone: no call takes a sender that has left slow
\* start back into it.
C32_SlowStartNeverReentered == ~prev.inSlowStart => ~p.inSlowStart

\* an ACK that grows a window below the threshold, after slow start has ended
C32_Witness ==
    /\ AckCounted
    /\ ~prev.inSlowStart
    /\ prev.congestionWindow < prev.slowStartThreshold
    /\ p.congestionWindow > prev.congestionWindow
    /\ ~p.inSlowStart

\* C33: on a sender that has not yet responded to a loss, OnCongestionEvent
\* runs the loss response for every packet number, packet number 0 included.
C33_FirstLossNeverIgnored ==
    (lastOp.op = "OnCongestionEvent" /\ ~prev.inRecovery) =>
        /\ p.inRecovery
        /\ ~p.inSlowStart
        /\ p.largestSentAtLastCutback = prev.largestSentPacketNumber
        /\ p.slowStartThreshold = prev.congestionWindow \div 2

\* C35: OnECNFeedback leaves slowStartThreshold, inRecovery, the three packet
\* number fields and maxDatagramSize as they were, and slowStartThreshold
\* changes only in an OnCongestionEvent that is not a duplicate or in
\* OnRetransmissionTimeout.
C35_FrameOfECNFeedback ==
    /\ lastOp.op = "OnECNFeedback" =>
           /\ p.slowStartThreshold = prev.slowStartThreshold
           /\ p.inRecovery = prev.inRecovery
           /\ p.largestSentPacketNumber = prev.largestSentPacketNumber
           /\ p.largestAckedPacketNumber = prev.largestAckedPacketNumber
           /\ p.largestSentAtLastCutback = prev.largestSentAtLastCutback
           /\ p.maxDatagramSize = prev.maxDatagramSize
    /\ p.slowStartThreshold # prev.slowStartThreshold =>
           LossProcessed \/ lastOp.op = "OnRetransmissionTimeout"

\* an ECN response that cuts the window of a sender in recovery below a
\* threshold set by an earlier loss
C35_Witness ==
    /\ Flushed
    /\ prev.inRecovery
    /\ p.inRecovery
    /\ p.congestionWindow < prev.congestionWindow
    /\ prev.slowStartThreshold < MaxByteCount
    /\ p.congestionWindow < p.slowStartThreshold
    /\ p.slowStartThreshold = prev.slowStartThreshold

\* C36: no call takes a positive alpha back to 0, and alpha leaves 0 only
\* through the bootstrap alpha := 1.0 of a flush, so the bootstrap happens at
\* most once.
C36_AlphaStaysPositive ==
    /\ RatLT(Zero, prev.alpha) => RatLT(Zero, p.alpha)
    /\ (prev.alpha = Zero /\ p.alpha # Zero) => (Flushed /\ p.alpha = One)

\* a sample without marks decays a positive alpha, which stays positive
C36_Witness ==
    /\ Flushed
    /\ prev.ecnMarkedBytes + lastOp.bytes = 0
    /\ RatLT(Zero, prev.alpha)
    /\ RatLT(p.alpha, prev.alpha)
    /\ RatLT(Zero, p.alpha)

C39_PopulatedIsValid ==
    connOp.op = "Listen" =>
        LET c == connOp.config
            populated == populateConfigExample(c)
        IN  /\ ~populated.nil
            /\ validateConfigExample(populated) = NoError
            /\ populated.EnableL4S = (~c.nil /\ c.EnableL4S)
            /\ populated.EnableL4S => populated.CongestionControlAlgorithm = "Prague"
            /\ conn.created => /\ conn.config = populated
                               /\ validateConfigExample(conn.config) = NoError

\* a config that the validation rejects and that populate would have made valid
C39_Witness ==
    /\ connOp.op = "Listen"
    /\ connOp.config = Config(TRUE, "RFC9002")
    /\ validateConfigExample(connOp.config) = L4SRequiresPrague
    /\ ~conn.created
    /\ populateConfigExample(connOp.config) = Config(TRUE, "Prague")
    /\ validateConfigExample(populateConfigExample(connOp.config)) = NoError

\* C37: in congestion avoidance an ACK never lowers the window and leaves it
\* as it is when it has reached initialMaxCongestionWindow; in slow start the
\* window grows by the acked bytes whatever its size.
C37_AdditiveIncreaseCap ==
    AckCounted =>
        /\ ~prev.inSlowStart =>
               /\ p.congestionWindow >= prev.congestionWindow
               /\ prev.congestionWindow >= prev.initialMaxCongestionWindow =>
                      p.congestionWindow = prev.congestionWindow
        /\ prev.inSlowStart =>
               p.congestionWindow = prev.congestionWindow + lastOp.bytes

\* an ACK in congestion avoidance at a window that slow start took to twice
\* the cap before a loss halved it
C37_Witness ==
    /\ AckCounted
    /\ ~prev.inSlowStart
    /\ prev.slowStartThreshold >= prev.initialMaxCongestionWindow
    /\ prev.congestionWindow >= prev.initialMaxCongestionWindow
    /\ lastOp.bytes * prev.maxDatagramSize >= prev.congestionWindow
    /\ p.congestionWindow = prev.congestionWindow

\* the CE-marked bytes of the sample that the last call flushed
FlushedMarkedBytes == prev.ecnMarkedBytes + lastOp.bytes

C38_SameWithoutFeedback ==
    /\ senders[1].l4sEnabled
    /\ ~senders[2].l4sEnabled
    /\ senders[1].congestionWindow = senders[2].congestionWindow
    /\ senders[1].slowStartThreshold = senders[2].slowStartThreshold
    /\ senders[1].alpha = Zero
    /\ senders[2].alpha = Zero
    /\ senders[1].inSlowStart = senders[2].inSlowStart
    /\ senders[1].inRecovery = senders[2].inRecovery
    /\ senders[1] = [senders[2] EXCEPT !.l4sEnabled = TRUE]

\* an ACK in congestion avoidance grows both windows by the same amount
C38_Witness ==
    /\ twoOp.op = "OnPacketAcked"
    /\ senders[1].l4sEnabled
    /\ ~senders[2].l4sEnabled
    /\ ~prevSenders[1].inSlowStart
    /\ senders[1].totalAckedBytes > 0
    /\ senders[1].congestionWindow > prevSenders[1].congestionWindow
    /\ senders[1].congestionWindow = senders[2].congestionWindow

====
